---- MODULE Spec2Model ----
(***************************************************************************)
(* A model of src/src-py/sin_cos_tab_tgen.py: the generator of the sine,   *)
(* cosine and tangent table for hiwonder bus-servo units.                  *)
(*                                                                         *)
(* A Python float is an IEEE-754 binary64.  It is kept here as its exact   *)
(* value m * 2^x: m is the 53-bit significand, held as three limbs of 18   *)
(* bits (most significant first, the first limb has 17 bits), and x is the *)
(* exponent of its last bit.  Each arithmetic operation of the source is   *)
(* computed exactly and then rounded once to nearest, ties to even, which  *)
(* is what CPython does for int / int, float / int and float * int.        *)
(***************************************************************************)
EXTENDS Integers, Sequences, FiniteSets, TLC

\* ------------------------------------------------------------------------
\* binary64 arithmetic

\* The number of significand bits of a binary64.
MantBits == 53

\* The bits of a limb, and the limb base.
LimbBits == 18
Base == 2^LimbBits

\* +0.0
Zero == [x |-> 0, m |-> <<0, 0, 0>>]

\* The number of bits of the natural n (0 for 0), n < 2^30.
BitLen(n) == CHOOSE k \in 0..30 : n < 2^k /\ (k = 0 \/ n >= 2^(k - 1))

\* Limb j of the limb string X, counted from the last (j = 0); 0 outside X.
Limb(X, j) == IF j >= 0 /\ j < Len(X) THEN X[Len(X) - j] ELSE 0

\* The w <= LimbBits bits of X from bit lo up (bit 0 is the last bit of X).
Field(X, lo, w) ==
    LET c == lo % LimbBits
        j == lo \div LimbBits
    IN  ((Limb(X, j) \div 2^c) + (Limb(X, j + 1) % 2^c) * 2^(LimbBits - c)) % 2^w

\* The number of bits of the limb string X, X # 0.
LimbsBitLen(X) ==
    LET j == CHOOSE i \in 1..Len(X) : X[i] # 0 /\ \A k \in 1..(i - 1) : X[k] = 0
    IN  (Len(X) - j) * LimbBits + BitLen(X[j])

\* m + 1 on a significand; the carry may run into a 54th bit.
IncMant(m) ==
    IF m[3] + 1 < Base THEN <<m[1], m[2], m[3] + 1>>
    ELSE IF m[2] + 1 < Base THEN <<m[1], m[2] + 1, 0>>
    ELSE <<m[1] + 1, 0, 0>>

\* The significand kept of the limb string V when its last s bits are dropped.
Keep(V, s) ==
    <<Field(V, s + 2 * LimbBits, LimbBits - 1),
      Field(V, s + LimbBits, LimbBits), Field(V, s, LimbBits)>>

\* Whether (V + f) * 2^x rounds away from zero when s bits are dropped: the
\* first dropped bit is set, and what follows it is not zero or Keep is odd.
RoundsUp(V, s, sticky) ==
    /\ s >= 1
    /\ Field(V, s - 1, 1) = 1
    /\ \/ sticky
       \/ s >= 2 /\ \E k \in 0..(s - 2) : Field(V, k, 1) = 1
       \/ Field(V, s, 1) = 1

\* The rounding of (V + f) * 2^x to the bits of V above the last s.
Rounded(V, s, sticky, x) ==
    IF ~RoundsUp(V, s, sticky) THEN [x |-> x + s, m |-> Keep(V, s)]
    ELSE IF IncMant(Keep(V, s))[1] < 2^(LimbBits - 1)
         THEN [x |-> x + s, m |-> IncMant(Keep(V, s))]
         ELSE [x |-> x + s + 1, m |-> <<2^(LimbBits - 2), 0, 0>>]

\* The binary64 nearest to the exact value (X + f) * 2^x, X # 0, where
\* 0 <= f < 1 and sticky says f # 0.  Ties go to the even significand.
\* The limbs of X and the count of dropped bits are each computed once.
RoundNearestEven(X, sticky, x) ==
    CHOOSE f \in UNION {{Rounded(V, s, sticky, x) :
                            s \in {LimbsBitLen(V) - MantBits}} : V \in {X}} : TRUE

\* int -> float, exact for the integers of this program (all below 2^18).
ToFloat(n) == IF n = 0 THEN Zero ELSE RoundNearestEven(<<n>>, FALSE, 0)

\* The exact product of the limb string X and the natural n < 2^12, by the
\* school method from the last limb: i is the next limb, acc the low limbs.
RECURSIVE MulLimbs(_, _, _, _, _)
MulLimbs(X, n, i, carry, acc) ==
    IF i = 0 THEN <<carry>> \o acc
    ELSE LET t == X[i] * n + carry
         IN  MulLimbs(X, n, i - 1, t \div Base, <<t % Base>> \o acc)

\* float * int: the int is converted exactly, the exact product rounded once.
FloatMulInt(f, n) ==
    IF n = 0 \/ f = Zero THEN Zero
    ELSE RoundNearestEven(MulLimbs(f.m, n, Len(f.m), 0, <<>>), FALSE, f.x)

\* Long division of the limb string X by the natural d, 0 < d < 2^12: i is
\* the next limb, rem the running remainder, q the quotient's limbs so far.
RECURSIVE DivLimbs(_, _, _, _, _)
DivLimbs(X, d, i, rem, q) ==
    IF i > Len(X) THEN [q |-> q, r |-> rem]
    ELSE LET t == rem * Base + X[i]
         IN  DivLimbs(X, d, i + 1, t % d, Append(q, t \div d))

\* float / int: the int is converted exactly, the exact quotient rounded once.
\* The dividend is scaled by Base^2 so that the integer quotient has more
\* than MantBits + 1 bits; the remainder is the sticky bit.
FloatDivInt(f, d) ==
    IF f = Zero THEN Zero
    ELSE LET qr == DivLimbs(f.m \o <<0, 0>>, d, 1, 0, <<>>)
         IN  RoundNearestEven(qr.q, qr.r # 0, f.x - 2 * LimbBits)

\* int / int (true division), 0 <= n < Base: the exact quotient rounded once.
IntDivInt(n, d) ==
    IF n = 0 THEN Zero
    ELSE LET qr == DivLimbs(<<n, 0, 0, 0, 0>>, d, 1, 0, <<>>)
         IN  RoundNearestEven(qr.q, qr.r # 0, 0 - 4 * LimbBits)

\* math.pi, the binary64 nearest to pi: 0x1.921fb54442d18p+1, that is
\* 0x1921fb54442d18 * 2^-51.
math_pi == [x |-> 0 - 51, m |-> <<\H1921F, \H2D511, \H02D18>>]

\* ------------------------------------------------------------------------
\* the unit converters

\* hwians_to_degs with the product taken first: hw * 180.0 / 750.0.
hwians_to_degs_product_first(hw) == IntDivInt(hw * 180, 750)

\* hwians_to_degs with 180 / 750 as a floor division: (180 // 750) * hw.
hwians_to_degs_floor_div(hw) == ToFloat((180 \div 750) * hw)

\* 180 / 750, the same float at every call.
degs_per_hw == IntDivInt(180, 750)

hwians_to_degs(hw) == FloatMulInt(degs_per_hw, hw)

\* math.pi / 750, the same float at every call.
rads_per_hw == FloatDivInt(math_pi, 750)

hwians_to_rads(hw) == FloatMulInt(rads_per_hw, hw)

\* math.sin, math.cos and math.tan are the C library's routines, not code of
\* this program: a result is kept as the application it is, the routine and
\* its argument.  None of them raises for a finite argument.
math_sin(x) == [fn |-> "sin", x |-> x]
math_cos(x) == [fn |-> "cos", x |-> x]
math_tan(x) == [fn |-> "tan", x |-> x]

\* ------------------------------------------------------------------------
\* the program's state

VARIABLES
    pc,       \* the statement the interpreter is at
    it,       \* the running for loop's range iterator: the next index
    globals,  \* the module's names hw, rads, degs and r, once bound
    stdout,   \* standard output, as the reader of the stream has it
    argv,     \* the command line the process was started with
    runs,     \* how many times the program has been started
    prev      \* the command line and the line count of the previous run

vars == <<pc, it, globals, stdout, argv, runs, prev>>

\* The command lines a run is started with.
ArgvChoices == {<<>>, <<"90">>}

\* How many times the program is run, one after the other.
MaxRuns == 2

\* range(start, stop, step) with step > 0: its length and its i-th item.
RangeLen(rg) ==
    IF rg.start < rg.stop THEN (rg.stop - rg.start - 1) \div rg.step + 1 ELSE 0

RangeItem(rg, i) == rg.start + i * rg.step

\* The sine range one short: range(0, 375, 1).
SinRangeShort == [start |-> 0, stop |-> 375, step |-> 1]

\* The sine range with its end read from the command line.
SinRangeFromArgv ==
    [start |-> 0, stop |-> IF argv = <<>> THEN 376 ELSE 91, step |-> 1]

\* The cosine range from 1: range(1, 376, 1).
CosRangeFromOne == [start |-> 1, stop |-> 376, step |-> 1]

\* The tangent range stopping before 90 degrees: range(0, 375, 1).
TanRangeShort == [start |-> 0, stop |-> 375, step |-> 1]

\* The three ranges of the source: range(0, 376, 1).
SinRange == [start |-> 0, stop |-> 376, step |-> 1]

CosRange == [start |-> 0, stop |-> 376, step |-> 1]

TanRange == [start |-> 0, stop |-> 376, step |-> 1]

\* str(n) for a natural n, one string per character.
RECURSIVE Str(_)
Str(n) ==
    LET d == <<"0", "1", "2", "3", "4", "5", "6", "7", "8", "9">>[(n % 10) + 1]
    IN  IF n < 10 THEN <<d>> ELSE Append(Str(n \div 10), d)

\* "{:3}".format(n): str(n), right-aligned with spaces in a field of 3.
FormatWidth3(n) ==
    LET t == Str(n)
    IN  [i \in 1..(IF Len(t) < 3 THEN 3 - Len(t) ELSE 0) |-> " "] \o t

\* "{}\t; HW:{:3} Rads:{} Degs:{}".format(r, hw, rads, degs): the line's four
\* fields; the text between them is fixed.  A float is written by repr, which
\* names exactly one binary64, so the field is kept as that float.
Format(r, hw, rads, degs) ==
    [kind |-> "data", r |-> r, hw |-> FormatWidth3(hw), rads |-> rads, degs |-> degs]

\* A header with its two lines the other way round.
HeaderSwapped(name) ==
    << [kind |-> "text", text |-> name], [kind |-> "text", text |-> ";"] >>

\* The two lines of ";\n;sin".
Header(name) == << [kind |-> "text", text |-> ";"], [kind |-> "text", text |-> name] >>

\* Standard output is a stream: the program writes lines to it and never
\* reads it back.  Its reader keeps the number of lines written (n) and, of
\* them, of text lines (texts); the last three lines (tail); and the passes:
\* for each line that names a function, in order, the name and the number of
\* data lines that followed it before the next such line.
NoOutput == [n |-> 0, texts |-> 0, tail |-> <<>>, passes |-> <<>>]

\* The stream so, one line l later.
Write(so, l) ==
    LET named == l.kind = "text" /\ l.text # ";"
        p     == so.passes
        k     == Len(p)
    IN  [n      |-> so.n + 1,
         texts  |-> so.texts + (IF l.kind = "text" THEN 1 ELSE 0),
         tail   |-> IF Len(so.tail) < 3 THEN Append(so.tail, l)
                    ELSE Append(Tail(so.tail), l),
         passes |-> IF named THEN Append(p, [name |-> l.text, lines |-> 0])
                    ELSE IF l.kind = "text" THEN p
                    ELSE IF k = 0 THEN <<[name |-> "", lines |-> 1]>>
                    ELSE [p EXCEPT ![k].lines = @ + 1]]

\* print(...): the lines of its text, written one after the other.
RECURSIVE print(_, _)
print(so, ls) == IF ls = <<>> THEN so ELSE print(Write(so, Head(ls)), Tail(ls))

Init ==
    /\ pc = "sin_header"
    /\ it = 0
    /\ globals = [n \in {} |-> 0]
    /\ stdout = NoOutput
    /\ argv \in ArgvChoices
    /\ runs = 1
    /\ prev = [argv |-> <<>>, n |-> 0]

\* A pass through a loop is one step: the iterator's next item is bound to hw,
\* the three values are computed and bound, the line is printed.

SinHeader ==
    /\ pc = "sin_header"
    /\ stdout' = print(stdout, Header(";sin"))
    /\ pc' = "sin_loop"
    /\ it' = 0
    /\ UNCHANGED <<globals, argv, runs, prev>>

SinLoop ==
    /\ pc = "sin_loop"
    /\ it < RangeLen(SinRange)
    /\ LET hw   == RangeItem(SinRange, it)
           rads == hwians_to_rads(hw)
           degs == hwians_to_degs(hw)
           r    == math_sin(rads)
       IN  /\ globals' = [hw |-> hw, rads |-> rads, degs |-> degs, r |-> r]
           /\ stdout' = print(stdout, <<Format(r, hw, rads, degs)>>)
           /\ it' = it + 1
    /\ UNCHANGED <<pc, argv, runs, prev>>

\* The end of the sine loop going on to the tangent table.
SinLoopEndSkipsCos ==
    /\ pc = "sin_loop"
    /\ it >= RangeLen(SinRange)
    /\ pc' = "tan_header"
    /\ UNCHANGED <<it, globals, stdout, argv, runs, prev>>

SinLoopEnd ==
    /\ pc = "sin_loop"
    /\ it >= RangeLen(SinRange)
    /\ pc' = "cos_header"
    /\ UNCHANGED <<it, globals, stdout, argv, runs, prev>>

CosHeader ==
    /\ pc = "cos_header"
    /\ stdout' = print(stdout, Header(";cos"))
    /\ pc' = "cos_loop"
    /\ it' = 0
    /\ UNCHANGED <<globals, argv, runs, prev>>

\* The cosine loop without its first statement: rads is the name's old value.
CosLoopStaleRads ==
    /\ pc = "cos_loop"
    /\ it < RangeLen(CosRange)
    /\ LET hw   == RangeItem(CosRange, it)
           rads == globals.rads
           degs == hwians_to_degs(hw)
           r    == math_cos(rads)
       IN  /\ globals' = [hw |-> hw, rads |-> rads, degs |-> degs, r |-> r]
           /\ stdout' = print(stdout, <<Format(r, hw, rads, degs)>>)
           /\ it' = it + 1
    /\ UNCHANGED <<pc, argv, runs, prev>>

CosLoop ==
    /\ pc = "cos_loop"
    /\ it < RangeLen(CosRange)
    /\ LET hw   == RangeItem(CosRange, it)
           rads == hwians_to_rads(hw)
           degs == hwians_to_degs(hw)
           r    == math_cos(rads)
       IN  /\ globals' = [hw |-> hw, rads |-> rads, degs |-> degs, r |-> r]
           /\ stdout' = print(stdout, <<Format(r, hw, rads, degs)>>)
           /\ it' = it + 1
    /\ UNCHANGED <<pc, argv, runs, prev>>

CosLoopEnd ==
    /\ pc = "cos_loop"
    /\ it >= RangeLen(CosRange)
    /\ pc' = "tan_header"
    /\ UNCHANGED <<it, globals, stdout, argv, runs, prev>>

TanHeader ==
    /\ pc = "tan_header"
    /\ stdout' = print(stdout, Header(";tan"))
    /\ pc' = "tan_loop"
    /\ it' = 0
    /\ UNCHANGED <<globals, argv, runs, prev>>

\* A tangent that answers infinity at 90 degrees instead of calling math.tan.
Infinity == [fn |-> "inf", x |-> Zero]

GuardedTan(x) == IF x = hwians_to_rads(375) THEN Infinity ELSE math_tan(x)

\* The tangent loop with 90 degrees special-cased.
TanLoopSpecialCase ==
    /\ pc = "tan_loop"
    /\ it < RangeLen(TanRange)
    /\ LET hw   == RangeItem(TanRange, it)
           rads == hwians_to_rads(hw)
           degs == hwians_to_degs(hw)
           r    == GuardedTan(rads)
       IN  /\ globals' = [hw |-> hw, rads |-> rads, degs |-> degs, r |-> r]
           /\ stdout' = print(stdout, <<Format(r, hw, rads, degs)>>)
           /\ it' = it + 1
    /\ UNCHANGED <<pc, argv, runs, prev>>

TanLoop ==
    /\ pc = "tan_loop"
    /\ it < RangeLen(TanRange)
    /\ LET hw   == RangeItem(TanRange, it)
           rads == hwians_to_rads(hw)
           degs == hwians_to_degs(hw)
           r    == math_tan(rads)
       IN  /\ globals' = [hw |-> hw, rads |-> rads, degs |-> degs, r |-> r]
           /\ stdout' = print(stdout, <<Format(r, hw, rads, degs)>>)
           /\ it' = it + 1
    /\ UNCHANGED <<pc, argv, runs, prev>>

TanLoopEnd ==
    /\ pc = "tan_loop"
    /\ it >= RangeLen(TanRange)
    /\ pc' = "done"
    /\ UNCHANGED <<it, globals, stdout, argv, runs, prev>>

\* The process has ended and the program is started again, with any command
\* line: a new process and a new stream, with nothing of the old ones.
Rerun ==
    /\ pc = "done"
    /\ runs < MaxRuns
    /\ prev' = [argv |-> argv, n |-> stdout.n]
    /\ runs' = runs + 1
    /\ argv' \in ArgvChoices
    /\ pc' = "sin_header"
    /\ it' = 0
    /\ globals' = [n \in {} |-> 0]
    /\ stdout' = NoOutput

Next ==
    \/ SinHeader \/ SinLoop \/ SinLoopEnd
    \/ CosHeader \/ CosLoop \/ CosLoopEnd
    \/ TanHeader \/ TanLoop \/ TanLoopEnd

NextRuns == Next \/ Rerun

\* One run of the program.
Spec == Init /\ [][Next]_vars

\* One run; the interpreter does not stop while a statement is left to run.
LiveSpec == Spec /\ WF_vars(Next)

\* Runs of the program, one after the other.
SpecRuns == Init /\ [][NextRuns]_vars

\* ------------------------------------------------------------------------
\* reading the output

IsText(l) == l.kind = "text"
IsData(l) == l.kind = "data"
IsName(l) == IsText(l) /\ l.text # ";"
IsSeparator(l) == IsText(l) /\ l.text = ";"

\* The header lines that name a function, and the functions, in the order of
\* the source.
PassNames == <<";sin", ";cos", ";tan">>
TrigNames == <<"sin", "cos", "tan">>

\* Every reachable state but the first is the state just after a print: what
\* holds of the last line written in every state holds of every line of the
\* output, at the time it is written.
Written == stdout.n > 0
Last == stdout.tail[Len(stdout.tail)]

\* The pass being written, once a line has named one.
Passes == stdout.passes
InPass == Len(Passes) > 0
CurPass == Passes[Len(Passes)]

\* The number a field of digits, right-aligned with spaces, denotes.
RECURSIVE ParseInt(_)
ParseInt(f) ==
    IF f = <<>> \/ f[Len(f)] = " " THEN 0
    ELSE LET d == CHOOSE k \in 0..9 :
                      <<"0", "1", "2", "3", "4", "5", "6", "7", "8", "9">>[k + 1] = f[Len(f)]
         IN  ParseInt(SubSeq(f, 1, Len(f) - 1)) * 10 + d

\* The unit a data line records in its HW field.
UnitOf(l) == ParseInt(l.hw)

\* The next binary64 above f > 0.
NextUp(f) ==
    LET inc == IncMant(f.m)
    IN  IF inc[1] < 2^(LimbBits - 1) THEN [x |-> f.x, m |-> inc]
        ELSE [x |-> f.x + 1, m |-> <<2^(LimbBits - 2), 0, 0>>]

\* 90.0 = 0x1.68p+6
Ninety == [x |-> 0 - 46, m |-> <<\H16800, 0, 0>>]

\* (180 / 750) * u and u * 180 / 750 as binary64, for every unit.
QuotientFirst == [u \in 0..375 |-> FloatMulInt(IntDivInt(180, 750), u)]
ProductFirst == [u \in 0..375 |-> IntDivInt(u * 180, 750)]

\* (math.pi / 750) * u as binary64, for every unit.
RadsOfUnit == [u \in 0..375 |-> FloatMulInt(FloatDivInt(math_pi, 750), u)]

\* ------------------------------------------------------------------------
\* the claims

\* C1: at most three passes are named, ;sin, ;cos and ;tan in that order and
\* none twice; a data line is written only in a named pass and its value is
\* that pass's function, so every sine line is written before the cosine
\* pass is named and every cosine line before the tangent pass is; when the
\* program has finished all three passes are there and none is empty.
C1_PassOrder ==
    /\ Len(Passes) <= 3
    /\ \A k \in 1..Len(Passes) : Passes[k].name = PassNames[k]
    /\ (Written /\ IsData(Last)) => Last.r.fn = TrigNames[Len(Passes)]
    /\ pc = "done" => Len(Passes) = 3 /\ \A k \in 1..3 : Passes[k].lines > 0

C1_Witness ==
    /\ pc = "done" /\ Len(Passes) = 3
    /\ Passes[1].name = ";sin" /\ Passes[2].name = ";cos" /\ Passes[3].name = ";tan"
    /\ IsData(Last) /\ Last.r.fn = "tan"

\* C2: when the program has finished, the sine, the cosine and the tangent
\* pass have exactly 376 data lines each, 1128 in all, and there are 6 header
\* lines: 1134 lines.
C2_LineCounts ==
    pc = "done" =>
        /\ Len(Passes) = 3
        /\ \A k \in 1..3 : Passes[k].name = PassNames[k] /\ Passes[k].lines = 376
        /\ stdout.n - stdout.texts = 1128
        /\ stdout.texts = 6
        /\ stdout.n = 1134

C2_Witness == pc = "done" /\ Len(Passes) = 3 /\ stdout.n > 0

\* C3: the k-th data line of a pass records unit k - 1 in its HW field, and
\* no unit above 375; a pass that is over has 376 data lines, and so has
\* every pass when the program has finished: each pass has one line for each
\* unit 0, 1, ..., 375, in ascending order, and no other.
C3_UnitsAscending ==
    /\ (Written /\ IsData(Last)) =>
          /\ InPass
          /\ UnitOf(Last) = CurPass.lines - 1
          /\ UnitOf(Last) <= 375
    /\ \A k \in 1..Len(Passes) :
          /\ Passes[k].lines <= 376
          /\ (k < Len(Passes) \/ pc = "done") => Passes[k].lines = 376
    /\ pc = "done" => Len(Passes) = 3

C3_Witness ==
    /\ Written /\ IsData(Last) /\ InPass
    /\ CurPass.name = ";cos" /\ CurPass.lines = 376 /\ UnitOf(Last) = 375

\* C4: a separator line ";" is the first line or follows the data line of
\* unit 375, and is followed at once by a naming line; a naming line is one
\* of ;sin, ;cos, ;tan and follows a separator; a data line follows a data
\* line, or a naming line and then it is the line of unit 0.  Line 1 is ";",
\* line 2 is ";sin" and line 3 is the sine line of unit 0, with radians 0.0
\* and degrees 0.0.
\* (Line j of the tail; its first line is line 1 of the output when the tail
\* is the whole output, and was checked as a later line of the tail before
\* otherwise.)
C4_Line(t, j, whole) ==
    /\ IsSeparator(t[j]) =>
          /\ j < Len(t) /\ IsName(t[j + 1])
          /\ j > 1 => IsData(t[j - 1]) /\ UnitOf(t[j - 1]) = 375
    /\ IsName(t[j]) =>
          /\ t[j].text \in {";sin", ";cos", ";tan"}
          /\ j > 1 => IsSeparator(t[j - 1])
          /\ ~(j = 1 /\ whole)
    /\ IsData(t[j]) =>
          /\ j > 1 => IsData(t[j - 1]) \/ (IsName(t[j - 1]) /\ UnitOf(t[j]) = 0)
          /\ ~(j = 1 /\ whole)

C4_Headers ==
    LET t == stdout.tail
    IN  /\ \A j \in 1..Len(t) : C4_Line(t, j, stdout.n = Len(t))
        /\ stdout.n \in 1..3 =>
              /\ IsSeparator(t[1])
              /\ Len(t) >= 2 /\ IsName(t[2]) /\ t[2].text = ";sin"
              /\ Len(t) = 3 =>
                    /\ IsData(t[3])
                    /\ t[3].r.fn = "sin"
                    /\ t[3].hw = <<" ", " ", "0">>
                    /\ t[3].rads = Zero
                    /\ t[3].degs = Zero

C4_Witness ==
    /\ stdout.n = 759
    /\ IsSeparator(stdout.tail[1])
    /\ IsName(stdout.tail[2]) /\ stdout.tail[2].text = ";tan"
    /\ IsData(stdout.tail[3]) /\ UnitOf(stdout.tail[3]) = 0

\* C5: every run reaches the end of the program, and it is there only after
\* every pass has printed its 376 lines, the tangent line of unit 375 last.
C5_Terminates ==
    /\ <>(pc = "done")
    /\ [](pc = "done" =>
            /\ Len(Passes) = 3
            /\ \A k \in 1..3 : Passes[k].name = PassNames[k] /\ Passes[k].lines = 376
            /\ Written /\ IsData(Last)
            /\ Last.r.fn = "tan"
            /\ UnitOf(Last) = 375)

C5_Witness ==
    pc = "done" /\ Written /\ IsData(Last) /\ Last.r.fn = "tan" /\ UnitOf(Last) = 375

\* C6, as claimed: the degrees of every data line are unit * 180.0 / 750.0,
\* the product taken first.
C6_ProductFirst ==
    (Written /\ IsData(Last)) =>
        UnitOf(Last) \in 0..375 /\ Last.degs = ProductFirst[UnitOf(Last)]

\* C6, amended: the degrees of every data line are (180 / 750) * unit, the
\* quotient rounded first; that is unit * 180.0 / 750.0 or the binary64 just
\* below it.
C6_QuotientFirst ==
    (Written /\ IsData(Last)) =>
        /\ UnitOf(Last) \in 0..375
        /\ Last.degs = QuotientFirst[UnitOf(Last)]
        /\ \/ Last.degs = ProductFirst[UnitOf(Last)]
           \/ NextUp(Last.degs) = ProductFirst[UnitOf(Last)]

C6_Witness ==
    /\ Written /\ IsData(Last) /\ UnitOf(Last) = 11
    /\ Last.degs = QuotientFirst[11]
    /\ Last.degs # ProductFirst[11]
    /\ NextUp(Last.degs) = ProductFirst[11]

\* C7: a data line of unit 0 records 0.0 degrees and a data line of unit 375
\* records 90.0 degrees; the first data line of a pass, the one after the
\* naming line, records 0.0, and the last, the one before the next separator
\* or the end of the output, records 90.0.
C7_EndsExact ==
    LET t == stdout.tail
    IN  /\ \A j \in 1..Len(t) : IsData(t[j]) =>
              /\ UnitOf(t[j]) = 0 => t[j].degs = Zero
              /\ UnitOf(t[j]) = 375 => t[j].degs = Ninety
              /\ (j > 1 /\ IsName(t[j - 1])) => t[j].degs = Zero
              /\ (j < Len(t) /\ IsSeparator(t[j + 1])) => t[j].degs = Ninety
        /\ pc = "done" => Written /\ IsData(Last) /\ Last.degs = Ninety

C7_Witness ==
    /\ stdout.n = 380
    /\ IsData(stdout.tail[1]) /\ UnitOf(stdout.tail[1]) = 375
    /\ stdout.tail[1].degs = Ninety
    /\ IsSeparator(stdout.tail[2])

\* C8: the program is never in an error state; every line of the tangent
\* pass, the line of unit 375 among them, has the value math.tan returned for
\* the radians of its unit, and a value that is no sine and no cosine is never
\* anything else; when the program has finished, the tangent line of unit 375
\* is the last line.
C8_TanPassThrough ==
    /\ pc \in {"sin_header", "sin_loop", "cos_header", "cos_loop",
               "tan_header", "tan_loop", "done"}
    /\ (Written /\ IsData(Last)) =>
          /\ Last.r.fn \notin {"sin", "cos"} => Last.r = math_tan(Last.rads)
          /\ (InPass /\ CurPass.name = ";tan") =>
                /\ UnitOf(Last) \in 0..375
                /\ Last.rads = RadsOfUnit[UnitOf(Last)]
                /\ Last.r = math_tan(RadsOfUnit[UnitOf(Last)])
    /\ pc = "done" =>
          /\ Written /\ IsData(Last) /\ UnitOf(Last) = 375
          /\ InPass /\ CurPass.name = ";tan"

C8_Witness ==
    /\ pc = "done" /\ Written /\ IsData(Last)
    /\ InPass /\ CurPass.name = ";tan"
    /\ UnitOf(Last) = 375
    /\ Last.r = math_tan(RadsOfUnit[375])

\* The n-th line of the output, n in 1..1134: three blocks of 378 lines, each
\* a separator, a naming line and the data lines of the units 0..375.
ExpectedLine(n) ==
    LET k == (n - 1) \div 378
        j == (n - 1) % 378
        u == j - 2
        c == <<"0", "1", "2", "3", "4", "5", "6", "7", "8", "9">>
    IN  IF j = 0 THEN [kind |-> "text", text |-> ";"]
        ELSE IF j = 1 THEN [kind |-> "text", text |-> PassNames[k + 1]]
        ELSE [kind |-> "data",
              r    |-> [fn |-> TrigNames[k + 1], x |-> RadsOfUnit[u]],
              hw   |-> << IF u >= 100 THEN c[(u \div 100) + 1] ELSE " ",
                          IF u >= 10 THEN c[((u \div 10) % 10) + 1] ELSE " ",
                          c[(u % 10) + 1] >>,
              rads |-> RadsOfUnit[u],
              degs |-> QuotientFirst[u]]

\* C9: every run, whatever command line it was started with and whatever ran
\* before it, writes the same line as its n-th line, for every n, and the
\* same number of lines: any two runs write the same output, line for line.
C9_Deterministic ==
    /\ stdout.n <= 1134
    /\ \A j \in 1..Len(stdout.tail) :
          stdout.tail[j] = ExpectedLine(stdout.n - Len(stdout.tail) + j)
    /\ pc = "done" => stdout.n = 1134
    /\ (pc = "done" /\ runs > 1) => stdout.n = prev.n

C9_Witness ==
    runs > 1 /\ pc = "done" /\ prev.argv # argv /\ prev.n = 1134 /\ stdout.n = 1134

\* C10: the radians and the degrees of a data line are those of its unit,
\* hwians_to_rads(u) and hwians_to_degs(u), whatever the pass, so the HW, Rads
\* and Degs fields of a unit's line are the same in the three passes; and the
\* values a line records are the ones its own pass through the loop bound to
\* rads and degs, not ones left by an earlier pass.
C10_AnnotationByUnit ==
    (Written /\ IsData(Last)) =>
        /\ UnitOf(Last) \in 0..375
        /\ Last.hw = ExpectedLine(UnitOf(Last) + 3).hw
        /\ Last.rads = RadsOfUnit[UnitOf(Last)]
        /\ Last.degs = QuotientFirst[UnitOf(Last)]
        /\ globals.hw = UnitOf(Last)
        /\ globals.rads = Last.rads /\ globals.degs = Last.degs

C10_Witness ==
    /\ Written /\ IsData(Last) /\ InPass
    /\ CurPass.name = ";tan" /\ UnitOf(Last) = 200
    /\ Last.rads = RadsOfUnit[200] /\ Last.degs = QuotientFirst[200]
====
